---- MODULE Spec2Model ----
(***************************************************************************)
(* A model of the healthcheck scheduler (carltonbrown/hc-scheduler).       *)
(*                                                                         *)
(*   - findOverdueIssues   src/src/healthcheck-helpers.js                  *)
(*   - run                 src/src/index.js (first revision, lines 10-82)  *)
(*   - addIssueComment, unlabelIssue, composeNotificationComment           *)
(*                         src/src/update-issue.js                         *)
(*   - mapCheckableIssues, getIssueLabeledDate, fetchIssuesFromV2Project   *)
(*                         fetch-helpers                                   *)
(*   - loadHealthChecks, parseHealthcheckFile                              *)
(*                         src/src/load-hc.js, src/src/parse-frontmatter.js *)
(*                                                                         *)
(* Strings that the code inspects character by character (issue titles,    *)
(* enterprise slugs, the dry-run input) are sequences of one-character     *)
(* strings.  Times are integers in units of 1/DayLen of a day.  JavaScript *)
(* values that may be null, undefined or NaN are records of one shape.     *)
(***************************************************************************)
EXTENDS Integers, Sequences, FiniteSets, TLC

VARIABLES
    pc,                  \* position of the program
    clock,               \* the wall clock read by new Date()
    allHealthchecks,     \* the loaded healthcheck records
    checkableIssues,     \* the issues handed to findOverdueIssues
    maxStalenessInDays,  \* the staleness threshold
    overdueIssues,       \* the value returned by findOverdueIssues
    inputs,              \* the action's inputs (core.getInput)
    tracker,             \* the issues of the project board
    store,               \* the healthcheck records of the data repository
    isDryRun,            \* run: the parsed dry-run input
    idx,                 \* run: position of the loop in overdueIssues
    log,                 \* the calls made so far, in order
    failure,             \* run: what core.setFailed was called with
    call,                \* the arguments of a notifier operation called on its own
    ret,                 \* the outcome of the last notifier operation
    project,             \* the pages of items of the project board
    fetchCall,           \* the arguments of fetchIssuesFromV2Project
    after,               \* fetchIssuesFromV2Project: the cursor of the next request
    hasNextPage,         \* fetchIssuesFromV2Project: the loop condition
    fetchedIssues        \* fetchIssuesFromV2Project: the issues collected so far

\* the state of one call of findOverdueIssues
overdueVars == <<allHealthchecks, checkableIssues, maxStalenessInDays, overdueIssues>>
\* the environment and the locals of run
runVars == <<inputs, tracker, store, isDryRun, idx, failure>>
\* the state of one call of a notifier operation
notifierVars == <<call, ret>>

\* the state of one call of fetchIssuesFromV2Project
fetchVars == <<project, fetchCall, after, hasNextPage, fetchedIssues>>

vars == <<pc, clock, overdueVars, runVars, notifierVars, fetchVars, log>>

---------------------------------------------------------------------------
(* Bounds of the model *)

\* time units per day (the resolution of the clock)
DayLen == 2
\* how many time units the clock may advance during one behaviour
MaxTicks == 2
\* longest list of healthcheck records handed to findOverdueIssues
MaxHealthchecks == 2
\* longest list of issues handed to findOverdueIssues
MaxIssues == 2

\* the clock value at the start of a behaviour (day 100)
Now0 == 100 * DayLen

---------------------------------------------------------------------------
(* JavaScript values *)

Null == [t |-> "null", num |-> 0, den |-> 1, str |-> ""]
Undefined == [t |-> "undefined", num |-> 0, den |-> 1, str |-> ""]
NaN == [t |-> "NaN", num |-> 0, den |-> 1, str |-> ""]
Number(n) == [t |-> "number", num |-> n, den |-> 1, str |-> ""]
\* a Date object (or a parseable date string) for the instant ms
DateAt(ms) == [t |-> "date", num |-> ms, den |-> 1, str |-> ""]
InvalidDate == [t |-> "invalid-date", num |-> 0, den |-> 1, str |-> ""]
\* a string that is no numeral (a label name)
JsString(x) == [t |-> "string", num |-> 0, den |-> 1, str |-> x]

\* new Date(v)
NewDate(v) ==
    CASE v.t = "date" -> v
      [] v.t = "number" -> DateAt(v.num)
      [] v.t = "null" -> DateAt(0)
      [] OTHER -> InvalidDate

\* ToNumber(v), as applied by the operators - and / and >
ToNumber(v) ==
    CASE v.t = "number" -> v
      [] v.t = "date" -> Number(v.num)
      [] v.t = "null" -> Number(0)
      [] OTHER -> NaN

\* a - b
Minus(a, b) ==
    LET x == ToNumber(a)
        y == ToNumber(b)
    IN IF x.t = "NaN" \/ y.t = "NaN" THEN NaN ELSE Number(x.num - y.num)

\* a / (1000 * 60 * 60 * 24): a duration in time units as a number of days
DivDay(a) ==
    LET x == ToNumber(a)
    IN IF x.t = "NaN" THEN NaN
       ELSE [t |-> "number", num |-> x.num, den |-> x.den * DayLen, str |-> ""]

\* Math.floor(a)
MathFloor(a) ==
    LET x == ToNumber(a)
    IN IF x.t = "NaN" THEN NaN ELSE Number(x.num \div x.den)

\* a > b  (false when either side is NaN)
Gt(a, b) ==
    LET x == ToNumber(a)
        y == ToNumber(b)
    IN /\ x.t = "number"
       /\ y.t = "number"
       /\ x.num * y.den > y.num * x.den

---------------------------------------------------------------------------
(* Characters and strings *)

IsDigit(c) == c \in {"0", "1", "2", "3", "4", "5", "6", "7", "8", "9"}
\* \s of a regular expression (line terminators do not occur in titles)
IsSpace(c) == c \in {" ", "\t"}

\* the position of the first character at or after p that is no white space
\* (Len(s) + 1 when there is none)
RECURSIVE SkipSpaces(_, _)
SkipSpaces(s, p) ==
    IF p <= Len(s) /\ IsSpace(s[p]) THEN SkipSpaces(s, p + 1) ELSE p

\* whether /\s*-\s*\d+.*$/ matches s starting at position p
SuffixMatchesAt(s, p) ==
    LET dash == SkipSpaces(s, p)
        digit == SkipSpaces(s, dash + 1)
    IN /\ dash <= Len(s)
       /\ s[dash] = "-"
       /\ digit <= Len(s)
       /\ IsDigit(s[digit])

\* StripSuffix that removes the title from its last marker on
StripLastSuffix(title) ==
    LET starts == {p \in 1..Len(title) : SuffixMatchesAt(title, p)}
    IN IF starts = {} THEN title
       ELSE LET dashes == {SkipSpaces(title, p) : p \in starts}
                lastDash == CHOOSE d \in dashes : \A e \in dashes : e <= d
                from == {p \in starts : SkipSpaces(title, p) = lastDash}
                first == CHOOSE p \in from : \A q \in from : p <= q
            IN SubSeq(title, 1, first - 1)

\* title.replace(/\s*-\s*\d+.*$/, ''): the leftmost match is removed, and it
\* runs to the end of the title
StripSuffix(title) ==
    LET starts == {p \in 1..Len(title) : SuffixMatchesAt(title, p)}
    IN IF starts = {} THEN title
       ELSE LET first == CHOOSE p \in starts : \A q \in starts : p <= q
            IN SubSeq(title, 1, first - 1)

---------------------------------------------------------------------------
(* findOverdueIssues *)

\* healthchecks.filter(hc => hc.enterprise_slug === enterpriseSlug)
MatchingHealthchecks(healthchecks, enterpriseSlug) ==
    SelectSeq(healthchecks, LAMBDA hc : hc.enterprise_slug = enterpriseSlug)

\* MostRecentIndex without the sort: the first matching record
MostRecentIndexUnsorted(matching) == 1

\* matching.sort((a, b) => new Date(b.date) - new Date(a.date))[0]:
\* the sort is stable, so the first of the records with the latest date
MostRecentIndex(matching) ==
    LET latest == {i \in 1..Len(matching) :
                     \A j \in 1..Len(matching) :
                        ~Gt(NewDate(matching[j].date), NewDate(matching[i].date))}
    IN CHOOSE i \in latest : \A j \in latest : i <= j

\* whether (a, b) => new Date(b.date) - new Date(a.date) is a consistent
\* comparator on the records: a record whose date does not parse compares
\* equal (NaN) to every record, so the other dates must all be equal
SortIsConsistent(matching) ==
    LET parsed == {i \in 1..Len(matching) : NewDate(matching[i].date) # InvalidDate}
    IN \/ parsed = 1..Len(matching)
       \/ \A i, j \in parsed : NewDate(matching[i].date) = NewDate(matching[j].date)

\* the index of the record that sort puts first: with a comparator that is
\* not consistent the order is left to the implementation, and pick stands
\* for its choice
FirstAfterSort(matching, pick) ==
    IF SortIsConsistent(matching) THEN MostRecentIndex(matching) ELSE pick

\* the choices sort has for each of the issues: one function from the
\* positions of the issues to positions among their matching records
SortPicks(healthchecks, issues) ==
    {f \in [1..Len(issues) -> 1..(IF Len(healthchecks) = 0 THEN 1 ELSE Len(healthchecks))] :
        \A i \in 1..Len(issues) :
            LET matching == MatchingHealthchecks(healthchecks,
                                                 StripSuffix(issues[i].title))
            IN IF SortIsConsistent(matching)
               THEN f[i] = 1
               ELSE f[i] <= Len(matching)}

\* the issue with the three fields findOverdueIssues adds to it
WithHealthcheck(issue, healthchecks, now, pick) ==
    LET enterpriseSlug == StripSuffix(issue.title)
        matching == MatchingHealthchecks(healthchecks, enterpriseSlug)
        last == IF Len(matching) > 0
                THEN matching[FirstAfterSort(matching, pick)].date
                ELSE Null
        days == IF Len(matching) > 0
                THEN MathFloor(DivDay(Minus(DateAt(now), NewDate(last))))
                ELSE Null
    IN [number |-> issue.number,
        title |-> issue.title,
        assignees |-> issue.assignees,
        labels |-> issue.labels,
        url |-> issue.url,
        skip_healthcheck_notification |-> issue.skip_healthcheck_notification,
        skip_healthcheck |-> issue.skip_healthcheck,
        enterprise_slug |-> enterpriseSlug,
        last_healthcheck_date |-> last,
        days_since_healthcheck |-> days]

\* IsOverdue with the comparison >= in place of >
IsOverdueInclusive(issue, maxStaleness) ==
    \/ issue.last_healthcheck_date = Null
    \/ ~Gt(Number(maxStaleness), issue.days_since_healthcheck)

\* the filter: the last healthcheck is missing or stale
IsOverdue(issue, maxStaleness) ==
    \/ issue.last_healthcheck_date = Null
    \/ Gt(issue.days_since_healthcheck, Number(maxStaleness))

FindOverdueIssues(healthchecks, issues, maxStaleness, now, picks) ==
    LET mapped == [i \in 1..Len(issues) |->
                     WithHealthcheck(issues[i], healthchecks, now, picks[i])]
    IN SelectSeq(mapped, LAMBDA issue : IsOverdue(issue, maxStaleness))

---------------------------------------------------------------------------
(* Messages: a message is a sequence of pieces, each a literal text, an   *)
(* interpolated character string or an interpolated value                  *)

Piece(text, chars, value) == [text |-> text, chars |-> chars, value |-> value]
\* a literal part of a template
Lit(text) == Piece(text, <<>>, Null)
\* ${title}: an interpolated character string
Chars(c) == Piece("", c, Null)
\* ${value}: an interpolated number, date, label name, undefined, ...
Val(v) == Piece("", <<>>, v)
\* ${issue.url}
Url(u) == Piece("url", <<>>, Number(u))

\* the entry of the log for one call: the operation, the number of the issue,
\* a value (a date, a delay), a message body, and the clock at the call
Event(op, issue, value, body, now) ==
    [op |-> op, issue |-> issue, value |-> value, body |-> body, now |-> now]

\* the outcome of an async operation: it resolves to {ok, message} or it
\* rejects with an error; events are the calls it made
Resolved(ok, message, events) ==
    [raised |-> FALSE, error |-> "", ok |-> ok, message |-> message,
     events |-> events]
Rejected(error, events) ==
    [raised |-> TRUE, error |-> error, ok |-> FALSE, message |-> <<>>,
     events |-> events]

\* the message of the error a rejected API call carries
ApiError == "API error!"

---------------------------------------------------------------------------
(* composeNotificationComment (src/src/update-issue.js) *)

\* the outcome of a synchronous function: a value or a thrown error
Returned(value) == [threw |-> FALSE, error |-> "", value |-> value]
Threw(error) == [threw |-> TRUE, error |-> error, value |-> <<>>]

\* assignees.map((assignee) => @${assignee}).join(' ')
RECURSIVE AssigneeMentions(_)
AssigneeMentions(assignees) ==
    IF Len(assignees) = 0 THEN <<>>
    ELSE IF Len(assignees) = 1 THEN <<Lit("@"), Lit(assignees[1])>>
    ELSE <<Lit("@"), Lit(assignees[1]), Lit(" ")>> \o AssigneeMentions(Tail(assignees))

\* the title of an issue that has no title property
NoTitle == <<"undefined">>

\* ${enterpriseIssue.title}: the characters of the title, or the text
\* undefined when the issue has no title
TemplateTitle(title) == IF title = NoTitle THEN Val(Undefined) ELSE Chars(title)

\* SuppressionAdvice that leaves out the URL of the issue
SuppressionAdviceWithoutUrl(enterpriseIssue, skipLabelName) ==
    <<Lit("If you'd like to suppress this message temporarily, add the label "),
      Val(skipLabelName), Lit(" to the issue ")>>

\* line 33: the hint that names the label and the URL of the issue
SuppressionAdvice(enterpriseIssue, skipLabelName) ==
    <<Lit("If you'd like to suppress this message temporarily, add the label "),
      Val(skipLabelName), Lit(" to the issue "), Url(enterpriseIssue.url)>>

ComposeNotificationComment(enterpriseIssue, skipLabelName, now) ==
    LET last == enterpriseIssue.last_healthcheck_date
        healthcheckDate == NewDate(last)
        ageInDays == MathFloor(DivDay(Minus(DateAt(now), healthcheckDate)))
        baseMessage ==
            IF last = Null
            THEN \* the string literal of line 13 is a statement of its own
                 <<Lit("No healthchecks were found for the issue titled '"),
                   TemplateTitle(enterpriseIssue.title), Lit("'. ")>>
            ELSE <<Lit("The enterprise "), TemplateTitle(enterpriseIssue.title),
                   Lit(" is due for a health check because its last check was "),
                   Val(ageInDays), Lit(" days ago on "),
                   Piece("long date", <<>>, healthcheckDate), Lit(".")>>
        suppressionAdvice == SuppressionAdvice(enterpriseIssue, skipLabelName)
        finalMessage == baseMessage \o <<Lit(" ")>> \o suppressionAdvice
        assignees == enterpriseIssue.assignees
    IN IF last # Null /\ healthcheckDate = InvalidDate
       THEN Threw("Invalid date")
       ELSE IF Len(assignees) > 0
       THEN Returned(<<Lit("Heads-up ")>> \o AssigneeMentions(assignees)
                        \o <<Lit("! ")>> \o finalMessage \o <<Lit(".")>>)
       ELSE Returned(finalMessage)

---------------------------------------------------------------------------
(* addIssueComment and unlabelIssue (src/src/update-issue.js) *)

\* the parameters of addIssueComment: the names in scope in the whole body
AddIssueCommentParams ==
    {"octokit", "repoOwner", "repoName", "enterpriseIssue", "isDryRun",
     "ratePauseSec", "skipLabelName"}
\* the names declared with const and let inside the try block (lines 57-61)
AddIssueCommentTryBlock ==
    {"notificationComment", "issueDescription", "returnMessage", "result"}

\* the names that resolve in the catch block and at the return statement of
\* addIssueComment, which both lie outside the try block
InScopeAfterTry(name) == name \in AddIssueCommentParams

\* setTimeout(resolve, ratePauseSec * 1000): the delay in seconds
Pause(issue, ratePauseSec, now) ==
    Event("pause", issue.number, ToNumber(ratePauseSec), <<>>, now)

\* addIssueComment(octokit, repoOwner, repoName, enterpriseIssue, isDryRun,
\* ratePauseSec, skipLabelName); rejects says whether createComment rejects
AddIssueComment(enterpriseIssue, dryRun, ratePauseSec, skipLabelName, rejects, now) ==
    LET composed == ComposeNotificationComment(enterpriseIssue, skipLabelName, now)
        notificationComment == composed.value
        issueDescription ==
            <<Lit("#"), Val(Number(enterpriseIssue.number)), Lit(" "),
              Chars(enterpriseIssue.title), Lit(" in owner/repo: ")>>
                \o notificationComment
        \* the call of createComment, with the error it rejects with, if any
        createComment ==
            Event("createComment", enterpriseIssue.number,
                  IF rejects THEN JsString(ApiError) ELSE Null,
                  notificationComment, now)
        \* the calls made inside the try block
        events ==
            IF composed.threw \/ dryRun THEN <<>>
            ELSE IF rejects THEN <<createComment>>
            ELSE <<createComment, Pause(enterpriseIssue, ratePauseSec, now)>>
        \* whether the try block ends in the catch block, and with which error
        caught == composed.threw \/ (~dryRun /\ rejects)
        errorMessage == IF composed.threw THEN composed.error ELSE ApiError
        returnMessage ==
            IF caught
            THEN <<Lit("Failed to comment issue ")>> \o issueDescription
                    \o <<Lit(" - "), Lit(errorMessage)>>
            ELSE IF dryRun
            THEN <<Lit("[DRY-RUN] Would have commented on issue ")>> \o issueDescription
            ELSE <<Lit("Commented on issue ")>> \o issueDescription
    IN IF caught /\ ~InScopeAfterTry("issueDescription")
       THEN \* line 78 reads issueDescription
            Rejected("ReferenceError: issueDescription is not defined", events)
       ELSE IF ~InScopeAfterTry("result")
       THEN \* line 80 reads result
            Rejected("ReferenceError: result is not defined", events)
       ELSE IF ~InScopeAfterTry("returnMessage")
       THEN Rejected("ReferenceError: returnMessage is not defined", events)
       ELSE Resolved(~caught, returnMessage, events)

\* UnlabelIssue that calls removeLabel a second time when the first call
\* rejects
UnlabelIssueRetrying(enterpriseIssue, dryRun, ratePauseSec, labelName, rejects, now) ==
    LET baseMessage ==
            <<Lit(""), Val(labelName), Lit(" from issue #"),
              Val(Number(enterpriseIssue.number)), Lit(" in owner/repo ("),
              Chars(enterpriseIssue.title), Lit(")")>>
        removeLabel ==
            Event("removeLabel", enterpriseIssue.number, labelName,
                  IF rejects THEN <<Lit(ApiError)>> ELSE <<>>, now)
    IN IF dryRun
       THEN Resolved(TRUE, <<Lit("[DRY-RUN] Would have removed label ")>> \o baseMessage,
                     <<>>)
       ELSE IF rejects
       THEN Resolved(FALSE,
                     <<Lit("Unexpected error removing label ")>> \o baseMessage
                        \o <<Lit(": "), Lit(ApiError)>>,
                     <<removeLabel, removeLabel>>)
       ELSE Resolved(TRUE, <<Lit("Removing label ")>> \o baseMessage,
                     <<removeLabel, Pause(enterpriseIssue, ratePauseSec, now)>>)

\* UnlabelIssue with returnMessage and result declared inside the try block,
\* as addIssueComment declares them
UnlabelIssueScopedInTry(enterpriseIssue, dryRun, ratePauseSec, labelName, rejects, now) ==
    Rejected("ReferenceError: result is not defined",
             IF dryRun THEN <<>>
             ELSE <<Event("removeLabel", enterpriseIssue.number, labelName,
                          IF rejects THEN <<Lit(ApiError)>> ELSE <<>>, now)>>)

\* unlabelIssue(octokit, repoOwner, repoName, enterpriseIssue, isDryRun,
\* ratePauseSec, labelName); rejects says whether removeLabel rejects
UnlabelIssue(enterpriseIssue, dryRun, ratePauseSec, labelName, rejects, now) ==
    LET baseMessage ==
            <<Lit(""), Val(labelName), Lit(" from issue #"),
              Val(Number(enterpriseIssue.number)), Lit(" in owner/repo ("),
              Chars(enterpriseIssue.title), Lit(")")>>
        \* the call of removeLabel, with the error it rejects with, if any
        removeLabel ==
            Event("removeLabel", enterpriseIssue.number, labelName,
                  IF rejects THEN <<Lit(ApiError)>> ELSE <<>>, now)
    IN IF dryRun
       THEN Resolved(TRUE, <<Lit("[DRY-RUN] Would have removed label ")>> \o baseMessage,
                     <<>>)
       ELSE IF rejects
       THEN Resolved(FALSE,
                     <<Lit("Unexpected error removing label ")>> \o baseMessage
                        \o <<Lit(": "), Lit(ApiError)>>,
                     <<removeLabel>>)
       ELSE Resolved(TRUE, <<Lit("Removing label ")>> \o baseMessage,
                     <<removeLabel, Pause(enterpriseIssue, ratePauseSec, now)>>)

\* values of the variables a specification does not use
NoInputs == [dry_run |-> <<>>, max_staleness_days |-> <<>>, skip_label_name |-> "",
             ratelimit_pause_sec |-> 0]
NoTracker == [issues |-> <<>>, timelines |-> <<>>]
NoFailure == [stage |-> "", issue |-> 0, error |-> ""]
NoCall == [op |-> "", issue |-> <<>>, dryRun |-> TRUE, labelName |-> ""]
NoReturn == Resolved(FALSE, <<>>, <<>>)
NoFetchCall == [org |-> "", issueStatus |-> "", issueState |-> ""]

\* fetchIssuesFromV2Project is not running
FetchIdle ==
    /\ project = <<>>
    /\ fetchCall = NoFetchCall
    /\ after = Null
    /\ hasNextPage = Undefined
    /\ fetchedIssues = <<>>

---------------------------------------------------------------------------
(* The inputs of the action (src/src/index.js, lines 12-24) *)

UpperCase == <<"A", "B", "C", "D", "E", "F", "G", "H", "I", "J", "K", "L", "M",
               "N", "O", "P", "Q", "R", "S", "T", "U", "V", "W", "X", "Y", "Z">>
LowerCase == <<"a", "b", "c", "d", "e", "f", "g", "h", "i", "j", "k", "l", "m",
               "n", "o", "p", "q", "r", "s", "t", "u", "v", "w", "x", "y", "z">>

\* s.toLowerCase()
ToLowerCase(s) ==
    [i \in 1..Len(s) |->
        IF \E k \in 1..26 : UpperCase[k] = s[i]
        THEN LowerCase[CHOOSE k \in 1..26 : UpperCase[k] = s[i]]
        ELSE s[i]]

\* s.trim()
Trim(s) ==
    LET solid == {i \in 1..Len(s) : ~IsSpace(s[i])}
    IN IF solid = {} THEN <<>>
       ELSE SubSeq(s, CHOOSE i \in solid : \A j \in solid : i <= j,
                      CHOOSE i \in solid : \A j \in solid : j <= i)

\* ParseDryRun that compares the input as it was typed
ParseDryRunVerbatim(dryRunInput) ==
    dryRunInput \in {<<"t", "r", "u", "e">>, <<"1">>}

\* ['true', '1'].includes(dryRunInput.trim().toLowerCase())
ParseDryRun(dryRunInput) ==
    ToLowerCase(Trim(dryRunInput)) \in {<<"t", "r", "u", "e">>, <<"1">>}

\* the default of max-staleness-days
DefaultMaxStaleness == 60

Digits == <<"0", "1", "2", "3", "4", "5", "6", "7", "8", "9">>

\* the value of a string of digits
RECURSIVE DigitsValue(_)
DigitsValue(s) ==
    IF Len(s) = 0 THEN 0
    ELSE 10 * DigitsValue(SubSeq(s, 1, Len(s) - 1))
            + (CHOOSE d \in 0..9 : Digits[d + 1] = s[Len(s)])

\* Number(core.getInput('max-staleness-days') || 60), for an input that is
\* empty or a string of digits
ParseMaxStaleness(input) ==
    IF Len(input) = 0 THEN DefaultMaxStaleness ELSE DigitsValue(input)

---------------------------------------------------------------------------
(* mapCheckableIssues and getIssueLabeledDate (fetch-helpers) *)

\* issue.labels.includes(skipLabel)
Includes(labels, label) == \E i \in 1..Len(labels) : labels[i] = label

MapCheckableIssues(issues, skipLabel) ==
    [i \in 1..Len(issues) |->
        [number |-> issues[i].number,
         title |-> issues[i].title,
         assignees |-> issues[i].assignees,
         labels |-> issues[i].labels,
         url |-> issues[i].url,
         skip_healthcheck_notification |-> Includes(issues[i].labels, skipLabel),
         \* the mapped issue has no skip_healthcheck property
         skip_healthcheck |-> FALSE]]

\* the number of events the timeline API is asked for per page (per_page,
\* scaled down from 100)
PerPage == 2

\* octokit.rest.issues.listEventsForTimeline({per_page, page}): the events of
\* one page of a timeline
TimelinePage(timeline, page) ==
    SubSeq(timeline, (page - 1) * PerPage + 1,
           IF page * PerPage < Len(timeline) THEN page * PerPage ELSE Len(timeline))

\* ScanEvents that keeps the first matching event it finds
RECURSIVE ScanEventsFirstMatch(_, _, _)
ScanEventsFirstMatch(events, labelName, result) ==
    IF Len(events) = 0 THEN result
    ELSE ScanEventsFirstMatch(Tail(events), labelName,
                    IF /\ Head(events).event = "labeled"
                       /\ Head(events).label = labelName
                       /\ result = Undefined
                    THEN NewDate(Head(events).created_at)
                    ELSE result)

\* the for loop over the events of one page
RECURSIVE ScanEvents(_, _, _)
ScanEvents(events, labelName, result) ==
    IF Len(events) = 0 THEN result
    ELSE ScanEvents(Tail(events), labelName,
                    IF /\ Head(events).event = "labeled"
                       /\ Head(events).label = labelName
                    THEN NewDate(Head(events).created_at)
                    ELSE result)

\* the while loop over the pages, from the given page on: the result, and
\* the numbers of the pages requested
RECURSIVE ScanPages(_, _, _, _)
ScanPages(timeline, labelName, page, result) ==
    LET events == TimelinePage(timeline, page)
        found == ScanEvents(events, labelName, result)
    IN IF Len(events) < PerPage THEN [result |-> found, pages |-> <<page>>]
       ELSE LET rest == ScanPages(timeline, labelName, page + 1, found)
            IN [result |-> rest.result, pages |-> <<page>> \o rest.pages]

\* GetIssueLabeledDate that follows its documentation: null if not found
GetIssueLabeledDateOrNull(timeline, labelName) ==
    ScanPages(timeline, labelName, 1, Null).result

GetIssueLabeledDate(timeline, labelName) ==
    ScanPages(timeline, labelName, 1, Undefined).result

\* the pages getIssueLabeledDate asks listEventsForTimeline for, in order
TimelineRequests(timeline, labelName) ==
    ScanPages(timeline, labelName, 1, Undefined).pages

---------------------------------------------------------------------------
(* run (src/src/index.js, lines 10-82) *)

\* the days after which the pause of the notifications is lifted
SuppressionDays == 30

\* DaysSkipped in whole days
DaysSkippedFloored(now, skipLabeledDate) ==
    MathFloor(DivDay(Minus(DateAt(now), skipLabeledDate)))

\* (now - skipLabeledDate) / (1000 * 60 * 60 * 24)
DaysSkipped(now, skipLabeledDate) ==
    DivDay(Minus(DateAt(now), skipLabeledDate))

\* SuppressionExpired with the comparison >= in place of >
SuppressionExpiredInclusive(daysSkipped) ==
    Gt(daysSkipped, Number(SuppressionDays))
        \/ daysSkipped = DivDay(Number(SuppressionDays * DayLen))

\* daysSkipped > 30
SuppressionExpired(daysSkipped) == Gt(daysSkipped, Number(SuppressionDays))

---------------------------------------------------------------------------
(* Inputs *)

TitleGamma == <<"G", "a", "m", "m", "a", " ", "-", " ", "7", "8", "9">>
TitleBeta == <<"B", "e", "t", "a", " ", "-", " ", "4", "5", "6">>
TitleLower == <<"g", "a", "m", "m", "a", " ", "-", " ", "1">>
TitlePlain == <<"b", "e", "t", "a">>
TitleTwoMarkers == <<"A", " ", "-", " ", "1", " ", "-", " ", "2">>
SlugGamma == <<"g", "a", "m", "m", "a">>
SlugBeta == <<"b", "e", "t", "a">>
SlugCapital == <<"G", "a", "m", "m", "a">>

TitlePool == {TitleGamma, TitleBeta, TitleLower, TitlePlain, TitleTwoMarkers}
SlugPool == {SlugGamma, SlugBeta}
\* ages, in whole days at clock Now0, of the healthcheck records of a slug
AgePool(slug) == IF slug = SlugGamma THEN {10, 31, 40} ELSE {30, 40}

\* all sequences over S of length at most n
SeqsUpTo(S, n) == UNION {[1..k -> S] : k \in 0..n}

HealthcheckPool ==
    UNION {{[enterprise_slug |-> s, date |-> DateAt(Now0 - a * DayLen)] :
                a \in AgePool(s)} : s \in SlugPool}

\* an issue as mapCheckableIssues hands it on, numbered by its position
PlainIssue(n, title) ==
    [number |-> n, title |-> title, assignees |-> <<>>, labels |-> <<>>,
     url |-> n, skip_healthcheck_notification |-> FALSE,
     skip_healthcheck |-> FALSE]

\* an issue whose skip_healthcheck flag is set
SkippedIssue(n, title) == [PlainIssue(n, title) EXCEPT !.skip_healthcheck = TRUE]

IssueLists ==
    {[i \in 1..Len(ts) |-> PlainIssue(i, ts[i])] : ts \in SeqsUpTo(TitlePool, MaxIssues)}
    \cup {<<SkippedIssue(1, TitlePlain)>>
                \o [i \in 1..Len(ts) |-> PlainIssue(i + 1, ts[i])] :
            ts \in SeqsUpTo(TitlePool, MaxIssues - 1)}

---------------------------------------------------------------------------
(* findOverdueIssues called on its own *)

OverdueInit ==
    /\ pc = "overdue_ready"
    /\ clock = Now0
    /\ allHealthchecks \in SeqsUpTo(HealthcheckPool, MaxHealthchecks)
    /\ checkableIssues \in IssueLists
    /\ maxStalenessInDays = 30
    /\ overdueIssues = <<>>
    /\ inputs = NoInputs
    /\ tracker = NoTracker
    /\ store = <<>>
    /\ FetchIdle
    /\ isDryRun = TRUE
    /\ idx = 0
    /\ log = <<>>
    /\ failure = NoFailure
    /\ call = NoCall
    /\ ret = NoReturn

\* time passes before the call
OverdueTick ==
    /\ pc = "overdue_ready"
    /\ clock < Now0 + MaxTicks
    /\ clock' = clock + 1
    /\ UNCHANGED <<pc, overdueVars, runVars, fetchVars, notifierVars, log>>

OverdueCall ==
    /\ pc = "overdue_ready"
    /\ \E picks \in SortPicks(allHealthchecks, checkableIssues) :
          overdueIssues' = FindOverdueIssues(allHealthchecks, checkableIssues,
                                             maxStalenessInDays, clock, picks)
    /\ pc' = "overdue_returned"
    /\ UNCHANGED <<clock, allHealthchecks, checkableIssues, maxStalenessInDays,
                   runVars, fetchVars, notifierVars, log>>

OverdueNext == OverdueTick \/ OverdueCall

SpecOverdue == OverdueInit /\ [][OverdueNext]_vars

\* healthchecks as the loader hands them on when the date of the frontmatter
\* is missing (undefined), empty (null) or no date
UndatedHealthcheckPool ==
    {[enterprise_slug |-> s, date |-> d] :
        s \in SlugPool, d \in {Undefined, Null, JsString("not-a-date")}}

\* findOverdueIssues called with healthchecks of any kind
OverdueAnyDateInit ==
    /\ pc = "overdue_ready"
    /\ clock = Now0
    /\ allHealthchecks \in SeqsUpTo(HealthcheckPool \cup UndatedHealthcheckPool,
                                    MaxHealthchecks)
    /\ checkableIssues \in IssueLists
    /\ maxStalenessInDays = 30
    /\ overdueIssues = <<>>
    /\ inputs = NoInputs
    /\ tracker = NoTracker
    /\ store = <<>>
    /\ FetchIdle
    /\ isDryRun = TRUE
    /\ idx = 0
    /\ log = <<>>
    /\ failure = NoFailure
    /\ call = NoCall
    /\ ret = NoReturn

SpecOverdueAnyDate == OverdueAnyDateInit /\ [][OverdueNext]_vars

---------------------------------------------------------------------------
(* The environment of a run: inputs, project board, data repository *)

\* longest list of issues on the project board of a run
MaxRunIssues == 2

SkipLabel == "skip-healthcheck"
OtherLabel == "bug"

\* spellings of the dry-run input
DryRunPool ==
    {<<"t", "r", "u", "e">>, <<" ", "T", "R", "U", "E">>, <<"1">>,
     <<"f", "a", "l", "s", "e">>}
\* spellings of the max-staleness-days input
MaxStalenessPool == {<<>>, <<"3", "0">>}

\* the inputs of a run: every spelling of dry-run with a threshold of 30
\* days, and a dry and a live run with the default threshold
InputPool ==
    {[dry_run |-> d, max_staleness_days |-> m, skip_label_name |-> SkipLabel,
      ratelimit_pause_sec |-> 1] :
        d \in DryRunPool, m \in MaxStalenessPool \ {<<>>}}
    \cup {[dry_run |-> d, max_staleness_days |-> <<>>, skip_label_name |-> SkipLabel,
           ratelimit_pause_sec |-> 1] :
             d \in {<<"t", "r", "u", "e">>, <<"f", "a", "l", "s", "e">>}}

\* an event of an issue's timeline; label is "" for an event without a label
TimelineEvent(event, label, ageDays) ==
    [event |-> event, label |-> label, created_at |-> DateAt(Now0 - ageDays * DayLen)]

TimelinePool ==
    {<<TimelineEvent("labeled", SkipLabel, 30)>>,
     <<TimelineEvent("labeled", SkipLabel, 31)>>,
     <<TimelineEvent("commented", "", 5)>>,
     <<TimelineEvent("labeled", SkipLabel, 31),
       TimelineEvent("labeled", OtherLabel, 12),
       TimelineEvent("labeled", SkipLabel, 10)>>}

\* an issue of the project board together with its timeline
BoardPool ==
    {[title |-> TitleLower, assignees |-> <<>>, labels |-> <<SkipLabel>>,
      timeline |-> t] : t \in TimelinePool}
    \cup {[title |-> TitleBeta, assignees |-> <<"alice">>, labels |-> <<OtherLabel>>,
           timeline |-> <<>>]}

\* the project board: the issues fetchIssuesFromV2Project returns, numbered
\* by their position, and the timeline of each
TrackerPool ==
    {[issues |-> [i \in 1..Len(b) |->
                    [number |-> i, title |-> b[i].title,
                     assignees |-> b[i].assignees, labels |-> b[i].labels,
                     url |-> i]],
      timelines |-> [i \in 1..Len(b) |-> b[i].timeline]] :
        b \in SeqsUpTo(BoardPool, MaxRunIssues)}

\* the slug of a healthcheck that has none (no title has this key)
NoSlug == <<"">>

\* a markdown file whose frontmatter holds the given slug and date
RecordFile(slug, ageDays) ==
    [kind |-> "record", enterprise_slug |-> slug,
     date |-> DateAt(Now0 - ageDays * DayLen)]
\* a markdown file whose frontmatter is no well-formed YAML
MalformedFile == [kind |-> "malformed", enterprise_slug |-> NoSlug, date |-> Undefined]
\* a markdown file without frontmatter
PlainFile == [kind |-> "none", enterprise_slug |-> NoSlug, date |-> Undefined]
\* a markdown file whose frontmatter is empty
EmptyFile == [kind |-> "empty", enterprise_slug |-> NoSlug, date |-> Undefined]

\* parseHealthcheckFile(filePath): the healthcheck of the file, as a list of
\* one record, or the empty list when yaml.load returns undefined
ParseHealthcheckFile(file) ==
    CASE file.kind = "none" ->
            \* { enterprise_id: null }
            Returned(<<[enterprise_slug |-> NoSlug, date |-> Undefined]>>)
      [] file.kind = "malformed" ->
            Threw("Failed to parse YAML frontmatter")
      [] file.kind = "empty" ->
            Returned(<<>>)
      [] OTHER ->
            Returned(<<[enterprise_slug |-> file.enterprise_slug, date |-> file.date]>>)

\* loadHealthChecks(hcSubDir): the healthchecks of the files, in order; an
\* error thrown by parseHealthcheckFile is not caught
RECURSIVE LoadHealthChecks(_)
LoadHealthChecks(files) ==
    IF Len(files) = 0 THEN Returned(<<>>)
    ELSE LET healthcheck == ParseHealthcheckFile(Head(files))
             others == LoadHealthChecks(Tail(files))
         IN IF healthcheck.threw THEN healthcheck
            ELSE IF others.threw THEN others
            ELSE Returned(healthcheck.value \o others.value)

\* the markdown files of the data repository
StorePool ==
    {<<>>,
     <<RecordFile(SlugGamma, 10)>>,
     <<PlainFile, RecordFile(SlugGamma, 40), EmptyFile, RecordFile(SlugCapital, 10)>>,
     <<MalformedFile>>,
     <<RecordFile(SlugGamma, 40), MalformedFile>>,
     <<MalformedFile, RecordFile(SlugGamma, 40)>>}

---------------------------------------------------------------------------
(* run, one action per stretch between two awaits *)

Init ==
    /\ pc = "run_start"
    /\ clock = Now0
    /\ inputs \in InputPool
    /\ tracker \in TrackerPool
    /\ store \in StorePool
    /\ FetchIdle
    /\ allHealthchecks = <<>>
    /\ checkableIssues = <<>>
    /\ maxStalenessInDays = 0
    /\ overdueIssues = <<>>
    /\ isDryRun = FALSE
    /\ idx = 0
    /\ log = <<>>
    /\ failure = NoFailure
    /\ call = NoCall
    /\ ret = NoReturn

\* a catch block that swallows the error: the run ends without core.setFailed
SetFailedSwallowed(stage, issue, error) ==
    /\ pc' = "done"
    /\ failure' = [stage |-> stage, issue |-> issue, error |-> error]

\* the catch block of run: core.setFailed
SetFailed(stage, issue, error) ==
    /\ pc' = "failed"
    /\ failure' = [stage |-> stage, issue |-> issue, error |-> error]

\* lines 12-30: read the inputs, fetch the issues of the board (which may
\* reject) and map them
RunFetch ==
    /\ pc = "run_start"
    /\ maxStalenessInDays' = ParseMaxStaleness(inputs.max_staleness_days)
    /\ isDryRun' = ParseDryRun(inputs.dry_run)
    /\ \E rejects \in BOOLEAN :
          IF rejects
          THEN /\ SetFailed("fetch", 0, ApiError)
               /\ UNCHANGED checkableIssues
          ELSE /\ checkableIssues' =
                    MapCheckableIssues(tracker.issues, inputs.skip_label_name)
               /\ pc' = "run_load"
               /\ UNCHANGED failure
    /\ UNCHANGED <<clock, allHealthchecks, overdueIssues, inputs, tracker, store, fetchVars,
                   idx, log, notifierVars>>

\* lines 32-42: clone the data repository (which may throw), load the
\* healthchecks (which throws if a file does not parse) and find the overdue
\* issues
RunFindOverdue ==
    /\ pc = "run_load"
    /\ \E throws \in BOOLEAN :
          LET loaded == LoadHealthChecks(store)
          IN IF throws
             THEN /\ SetFailed("clone", 0, "git clone failed")
                  /\ UNCHANGED <<allHealthchecks, overdueIssues, idx, log>>
             ELSE IF loaded.threw
             THEN /\ SetFailed("loadHealthChecks", 0, loaded.error)
                  /\ UNCHANGED <<allHealthchecks, overdueIssues, idx, log>>
             ELSE /\ allHealthchecks' = loaded.value
                  /\ \E picks \in SortPicks(loaded.value, checkableIssues) :
                        overdueIssues' = FindOverdueIssues(loaded.value, checkableIssues,
                                                           maxStalenessInDays, clock,
                                                           picks)
                  /\ log' = Append(log, Event("findOverdueIssues", 0, Null, <<>>, clock))
                  /\ idx' = 1
                  /\ pc' = "loop"
                  /\ UNCHANGED failure
    /\ UNCHANGED <<clock, checkableIssues, maxStalenessInDays, inputs, tracker,
                   store, fetchVars, isDryRun, notifierVars>>

\* lines 44-52: the next overdue issue; if it carries the label, ask for the
\* date of the label (which may reject) and decide whether the pause is over
RunLabelCheck ==
    /\ pc = "loop"
    /\ idx <= Len(overdueIssues)
    /\ LET enterpriseIssue == overdueIssues[idx]
           skipLabeledDate ==
               GetIssueLabeledDate(tracker.timelines[enterpriseIssue.number],
                                   inputs.skip_label_name)
           pages == TimelineRequests(tracker.timelines[enterpriseIssue.number],
                                     inputs.skip_label_name)
           requests == [k \in 1..Len(pages) |->
                          Event("listEventsForTimeline", enterpriseIssue.number,
                                Number(pages[k]), <<>>, clock)]
           daysSkipped == DaysSkipped(clock, skipLabeledDate)
       IN IF enterpriseIssue.skip_healthcheck_notification
          THEN \E rejects \in BOOLEAN :
                  IF rejects
                  THEN /\ SetFailed("getIssueLabeledDate", enterpriseIssue.number,
                                    ApiError)
                       /\ UNCHANGED log
                  ELSE /\ log' = log \o requests
                                    \o <<Event("getIssueLabeledDate",
                                               enterpriseIssue.number,
                                               skipLabeledDate, <<>>, clock)>>
                       /\ pc' = IF SuppressionExpired(daysSkipped)
                                THEN "unlabel" ELSE "comment"
                       /\ UNCHANGED failure
          ELSE /\ pc' = "comment"
               /\ UNCHANGED <<log, failure>>
    /\ UNCHANGED <<clock, overdueVars, inputs, tracker, store, fetchVars, isDryRun, idx,
                   notifierVars>>

\* line 53: await unlabelIssue(...)
RunUnlabel ==
    /\ pc = "unlabel"
    /\ \E rejects \in BOOLEAN :
          LET enterpriseIssue == overdueIssues[idx]
              result == UnlabelIssue(enterpriseIssue, isDryRun,
                                     Number(inputs.ratelimit_pause_sec),
                                     JsString(inputs.skip_label_name), rejects, clock)
          IN log' = log \o <<Event("unlabelIssue", enterpriseIssue.number, Null,
                                   result.message, clock)>>
                        \o result.events
    /\ pc' = "comment"
    /\ UNCHANGED <<clock, overdueVars, runVars, fetchVars, notifierVars>>

\* lines 65-72: await addIssueComment(octokit, projectOrg, projectRepo,
\* enterpriseIssue, isDryRun, skipLabelName): the label name is passed in the
\* place of ratePauseSec, and skipLabelName is left undefined
RunComment ==
    /\ pc = "comment"
    /\ LET enterpriseIssue == overdueIssues[idx]
       IN IF ~enterpriseIssue.skip_healthcheck_notification
          THEN \E rejects \in BOOLEAN :
                  LET result == AddIssueComment(enterpriseIssue, isDryRun,
                                                JsString(inputs.skip_label_name),
                                                Undefined, rejects, clock)
                  IN /\ log' = log \o <<Event("addIssueComment",
                                              enterpriseIssue.number, Null,
                                              result.message, clock)>>
                                   \o result.events
                     /\ IF result.raised
                        THEN SetFailed("addIssueComment", enterpriseIssue.number,
                                       result.error)
                        ELSE /\ pc' = "pause"
                             /\ UNCHANGED failure
          ELSE /\ pc' = "pause"
               /\ UNCHANGED <<log, failure>>
    /\ UNCHANGED <<clock, overdueVars, inputs, tracker, store, fetchVars, isDryRun, idx,
                   notifierVars>>

\* RunPause with the test of isDryRun inverted
RunPauseInDryRun ==
    /\ pc = "pause"
    /\ log' = IF isDryRun
              THEN Append(log, Pause(overdueIssues[idx],
                                     Number(inputs.ratelimit_pause_sec), clock))
              ELSE log
    /\ idx' = idx + 1
    /\ pc' = "loop"
    /\ UNCHANGED <<clock, overdueVars, inputs, tracker, store, fetchVars, isDryRun, failure,
                   notifierVars>>

\* lines 75-77: pause unless this is a dry run, then go on to the next issue
RunPause ==
    /\ pc = "pause"
    /\ log' = IF ~isDryRun
              THEN Append(log, Pause(overdueIssues[idx],
                                     Number(inputs.ratelimit_pause_sec), clock))
              ELSE log
    /\ idx' = idx + 1
    /\ pc' = "loop"
    /\ UNCHANGED <<clock, overdueVars, inputs, tracker, store, fetchVars, isDryRun, failure,
                   notifierVars>>

\* the loop has gone through all overdue issues
RunLoopEnd ==
    /\ pc = "loop"
    /\ idx > Len(overdueIssues)
    /\ pc' = "done"
    /\ UNCHANGED <<clock, overdueVars, runVars, fetchVars, notifierVars, log>>

\* time passes while the run awaits, before it reads the clock again
Tick ==
    /\ pc \in {"run_load", "loop", "comment"}
    /\ clock < Now0 + MaxTicks
    /\ clock' = clock + 1
    /\ UNCHANGED <<pc, overdueVars, runVars, fetchVars, notifierVars, log>>

Next ==
    \/ RunFetch
    \/ RunFindOverdue
    \/ RunLabelCheck
    \/ RunUnlabel
    \/ RunComment
    \/ RunPause
    \/ RunLoopEnd
    \/ Tick

Spec == Init /\ [][Next]_vars

---------------------------------------------------------------------------
(* addIssueComment and unlabelIssue called on their own *)

\* an issue as findOverdueIssues hands it to the notifier
OverdueIssue(title, last, assignees) ==
    [number |-> 1, title |-> title, assignees |-> assignees, labels |-> <<>>,
     url |-> 1, skip_healthcheck_notification |-> FALSE,
     skip_healthcheck |-> FALSE,
     enterprise_slug |-> StripSuffix(title),
     last_healthcheck_date |-> last,
     days_since_healthcheck |->
        IF last = Null THEN Null
        ELSE MathFloor(DivDay(Minus(DateAt(Now0), NewDate(last))))]

LastHealthcheckPool == {Null, DateAt(Now0 - 40 * DayLen), JsString("not-a-date")}
AssigneesPool == {<<>>, <<"alice">>, <<"alice", "bob">>}

CallPool ==
    {[op |-> op, issue |-> OverdueIssue(t, d, a), dryRun |-> dry,
      labelName |-> SkipLabel] :
        op \in {"addIssueComment", "unlabelIssue"}, t \in TitlePool,
        d \in LastHealthcheckPool, a \in AssigneesPool, dry \in BOOLEAN}

\* issues handed to composeNotificationComment: with and without a title,
\* with a missing (undefined) last healthcheck date too
ComposeCallPool ==
    {[op |-> "composeNotificationComment", issue |-> OverdueIssue(t, d, a),
      dryRun |-> FALSE, labelName |-> SkipLabel] :
        t \in TitlePool \cup {<<>>, NoTitle},
        d \in LastHealthcheckPool \cup {Undefined}, a \in AssigneesPool}

NotifierInit ==
    /\ pc = "notifier_ready"
    /\ clock = Now0
    /\ call \in CallPool \cup ComposeCallPool
    /\ ret = NoReturn
    /\ log = <<>>
    /\ allHealthchecks = <<>>
    /\ checkableIssues = <<>>
    /\ maxStalenessInDays = 0
    /\ overdueIssues = <<>>
    /\ inputs = NoInputs
    /\ tracker = NoTracker
    /\ store = <<>>
    /\ FetchIdle
    /\ isDryRun = TRUE
    /\ idx = 0
    /\ failure = NoFailure

\* time passes before a call
NotifierTick ==
    /\ pc \in {"notifier_ready", "notifier_returned"}
    /\ clock < Now0 + MaxTicks
    /\ clock' = clock + 1
    /\ UNCHANGED <<pc, overdueVars, runVars, fetchVars, notifierVars, log>>

\* the outcome of a call: its result, and in the log the call itself followed
\* by the calls it made
Outcome(result) ==
    /\ ret' = result
    /\ log' = log \o <<Event(call.op, call.issue.number, Null, result.message, clock)>>
                  \o result.events

\* await addIssueComment(octokit, owner, repo, issue, isDryRun, 1, labelName)
CallAddIssueComment ==
    /\ pc = "notifier_ready"
    /\ call.op = "addIssueComment"
    /\ \E rejects \in BOOLEAN :
          Outcome(AddIssueComment(call.issue, call.dryRun, Number(1),
                                  JsString(call.labelName), rejects, clock))
    /\ pc' = "notifier_returned"
    /\ UNCHANGED <<clock, overdueVars, runVars, fetchVars, call>>

\* await unlabelIssue(octokit, owner, repo, issue, isDryRun, 1, labelName)
CallUnlabelIssue ==
    /\ pc = "notifier_ready"
    /\ call.op = "unlabelIssue"
    /\ \E rejects \in BOOLEAN :
          Outcome(UnlabelIssue(call.issue, call.dryRun, Number(1),
                               JsString(call.labelName), rejects, clock))
    /\ pc' = "notifier_returned"
    /\ UNCHANGED <<clock, overdueVars, runVars, fetchVars, call>>

\* the outcome of composeNotificationComment as the caller sees it: the
\* message returned or the error thrown; it makes no calls
Composed(result) ==
    [raised |-> result.threw, error |-> result.error, ok |-> ~result.threw,
     message |-> result.value, events |-> <<>>]

\* composeNotificationComment(issue, labelName)
CallComposeNotificationComment ==
    /\ pc = "notifier_ready"
    /\ call.op = "composeNotificationComment"
    /\ Outcome(Composed(ComposeNotificationComment(call.issue,
                                                  JsString(call.labelName), clock)))
    /\ pc' = "notifier_returned"
    /\ UNCHANGED <<clock, overdueVars, runVars, fetchVars, call>>

\* the caller composes the message for the same issue a second time
RetryComposeNotificationComment ==
    /\ pc = "notifier_returned"
    /\ call.op = "composeNotificationComment"
    /\ Outcome(Composed(ComposeNotificationComment(call.issue,
                                                  JsString(call.labelName), clock)))
    /\ pc' = "notifier_retried"
    /\ UNCHANGED <<clock, overdueVars, runVars, fetchVars, call>>

\* the caller makes the same call of addIssueComment a second time
RetryAddIssueComment ==
    /\ pc = "notifier_returned"
    /\ call.op = "addIssueComment"
    /\ \E rejects \in BOOLEAN :
          Outcome(AddIssueComment(call.issue, call.dryRun, Number(1),
                                  JsString(call.labelName), rejects, clock))
    /\ pc' = "notifier_retried"
    /\ UNCHANGED <<clock, overdueVars, runVars, fetchVars, call>>

\* the caller makes the same call of unlabelIssue a second time
RetryUnlabelIssue ==
    /\ pc = "notifier_returned"
    /\ call.op = "unlabelIssue"
    /\ \E rejects \in BOOLEAN :
          Outcome(UnlabelIssue(call.issue, call.dryRun, Number(1),
                               JsString(call.labelName), rejects, clock))
    /\ pc' = "notifier_retried"
    /\ UNCHANGED <<clock, overdueVars, runVars, fetchVars, call>>

NotifierNext ==
    \/ NotifierTick
    \/ CallAddIssueComment
    \/ CallUnlabelIssue
    \/ RetryAddIssueComment
    \/ RetryUnlabelIssue
    \/ CallComposeNotificationComment
    \/ RetryComposeNotificationComment

SpecNotifier == NotifierInit /\ [][NotifierNext]_vars

---------------------------------------------------------------------------
(* fetchIssuesFromV2Project called on its own *)

\* most pages of items a project board has
MaxPages == 2

\* a boolean of the response
Bool(b) == [t |-> "boolean", num |-> IF b THEN 1 ELSE 0, den |-> 1, str |-> ""]

\* while (hasNextPage): the value is neither false nor undefined nor null
Truthy(v) == v = Bool(TRUE)

\* a value of a single-select field of an item; an item also has values of
\* other kinds, which the query returns as empty objects
FieldValue(field, name) == [field |-> field, name |-> name]
EmptyFieldValue == FieldValue("", "")

\* an item of the board: its content is an issue, or null for a draft
ProjectItem(id, isIssue, state, assignees, fieldValues) ==
    [id |-> id, isIssue |-> isIssue, state |-> state, assignees |-> assignees,
     fieldValues |-> fieldValues]

\* the kinds of items of the model
ItemOfKind(kind, id) ==
    CASE kind = "active" ->
            ProjectItem(id, TRUE, "OPEN", <<"alice">>,
                        <<EmptyFieldValue, FieldValue("Status", "Active")>>)
      [] kind = "closed" ->
            ProjectItem(id, TRUE, "CLOSED", <<"alice", "bob">>,
                        <<FieldValue("Status", "Active")>>)
      [] kind = "unassigned" ->
            ProjectItem(id, TRUE, "OPEN", <<>>, <<FieldValue("Status", "Active")>>)
      [] kind = "done" ->
            ProjectItem(id, TRUE, "OPEN", <<"alice">>, <<FieldValue("Status", "Done")>>)
      [] kind = "priority" ->
            ProjectItem(id, TRUE, "OPEN", <<"bob">>,
                        <<FieldValue("Priority", "Active")>>)
      [] OTHER ->
            \* a draft: content is null
            ProjectItem(id, FALSE, "", <<>>, <<>>)

\* the pages of the model, as the kinds of their items
PagePool ==
    {<<"active">>, <<"active", "closed">>, <<"unassigned", "active">>,
     <<"done", "draft">>, <<"priority", "active">>}

\* the boards of the model: their pages, the id of an item telling its page
\* and its place in it, and whether the last page comes with pageInfo
ProjectPool ==
    {[pages |-> [p \in 1..Len(ks) |->
                    [i \in 1..Len(ks[p]) |-> ItemOfKind(ks[p][i], 10 * p + i)]],
      pageInfo |-> info] :
        ks \in SeqsUpTo(PagePool, MaxPages), info \in BOOLEAN}

FetchCallPool ==
    {[org |-> o, issueStatus |-> "Active", issueState |-> st] :
        o \in {"grubhub", ""}, st \in {"OPEN", "CLOSED"}}

\* the cursor that stands after page p
Cursor(p) == [JsString("cursor") EXCEPT !.num = p]

\* octokit.graphql(query, {org, projectNumber, after}): the page that follows
\* the cursor, with the pageInfo of the server; a board without pages
\* answers without items
Graphql(board, cursor) ==
    LET p == IF cursor = Null THEN 1 ELSE cursor.num + 1
    IN IF p > Len(board.pages)
       THEN [nodes |-> <<>>, hasNextPage |-> Undefined, endCursor |-> Undefined]
       ELSE IF p = Len(board.pages) /\ ~board.pageInfo
       THEN [nodes |-> board.pages[p], hasNextPage |-> Undefined,
             endCursor |-> Undefined]
       ELSE [nodes |-> board.pages[p], hasNextPage |-> Bool(p < Len(board.pages)),
             endCursor |-> Cursor(p)]

\* item.fieldValues.nodes.find(...): the places of the values of the field
\* Status that equal issueStatus
StatusFields(item, issueStatus) ==
    {k \in 1..Len(item.fieldValues) :
        /\ item.fieldValues[k] # EmptyFieldValue
        /\ item.fieldValues[k].field = "Status"
        /\ item.fieldValues[k].name = issueStatus}

\* IsNotifiable that does not look at the assignees
IsNotifiableUnassigned(item, issueStatus, issueState) ==
    /\ item.isIssue
    /\ item.state = issueState
    /\ StatusFields(item, issueStatus) # {}

\* lines 102-116: the item is an issue in the state asked for, has an
\* assignee, and its Status is the one asked for
IsNotifiable(item, issueStatus, issueState) ==
    /\ item.isIssue
    /\ item.state = issueState
    /\ Len(item.assignees) > 0
    /\ StatusFields(item, issueStatus) # {}

\* lines 117-126: the issue pushed for an item
FetchedIssue(item, issueStatus) ==
    LET statusField == item.fieldValues[CHOOSE k \in StatusFields(item, issueStatus) :
                                           \A j \in StatusFields(item, issueStatus) :
                                               k <= j]
    IN [id |-> item.id, state |-> item.state, assignees |-> item.assignees,
        status |-> statusField.name]

\* the for loop over the items of one page
RECURSIVE PushNotifiable(_, _, _, _)
PushNotifiable(found, items, issueStatus, issueState) ==
    IF Len(items) = 0 THEN found
    ELSE PushNotifiable(
            IF IsNotifiable(Head(items), issueStatus, issueState)
            THEN Append(found, FetchedIssue(Head(items), issueStatus))
            ELSE found,
            Tail(items), issueStatus, issueState)

FetchInit ==
    /\ pc = "fetch_ready"
    /\ clock = Now0
    /\ project \in ProjectPool
    /\ fetchCall \in FetchCallPool
    /\ after = Null
    /\ hasNextPage = Undefined
    /\ fetchedIssues = <<>>
    /\ allHealthchecks = <<>>
    /\ checkableIssues = <<>>
    /\ maxStalenessInDays = 0
    /\ overdueIssues = <<>>
    /\ inputs = NoInputs
    /\ tracker = NoTracker
    /\ store = <<>>
    /\ isDryRun = TRUE
    /\ idx = 0
    /\ log = <<>>
    /\ failure = NoFailure
    /\ call = NoCall
    /\ ret = NoReturn

\* lines 40 and 85-87: the test of org and the locals of the loop
FetchStart ==
    /\ pc = "fetch_ready"
    /\ IF fetchCall.org = ""
       THEN /\ pc' = "fetch_failed"
            /\ UNCHANGED <<after, hasNextPage, fetchedIssues>>
       ELSE /\ pc' = "fetch_loop"
            /\ after' = Null
            /\ fetchedIssues' = <<>>
            /\ hasNextPage' = Bool(TRUE)
    /\ UNCHANGED <<clock, overdueVars, runVars, notifierVars, project, fetchCall, log>>

\* lines 89-133: one turn of the loop: request the page after the cursor
\* (the request may reject), push its notifiable issues, read pageInfo
FetchPage ==
    /\ pc = "fetch_loop"
    /\ Truthy(hasNextPage)
    /\ log' = Append(log, Event("graphql", 0, after, <<>>, clock))
    /\ \E rejects \in BOOLEAN :
          IF rejects
          THEN /\ pc' = "fetch_failed"
               /\ UNCHANGED <<after, hasNextPage, fetchedIssues>>
          ELSE LET response == Graphql(project, after)
               IN /\ fetchedIssues' = PushNotifiable(fetchedIssues, response.nodes,
                                                     fetchCall.issueStatus,
                                                     fetchCall.issueState)
                  /\ hasNextPage' = response.hasNextPage
                  /\ after' = response.endCursor
                  /\ pc' = "fetch_loop"
    /\ UNCHANGED <<clock, overdueVars, runVars, notifierVars, project, fetchCall>>

\* line 135: return issues
FetchReturn ==
    /\ pc = "fetch_loop"
    /\ ~Truthy(hasNextPage)
    /\ pc' = "fetch_returned"
    /\ UNCHANGED <<clock, overdueVars, runVars, notifierVars, fetchVars, log>>

FetchNext == FetchStart \/ FetchPage \/ FetchReturn

\* the call goes on as long as it can: each await is answered
SpecFetch == FetchInit /\ [][FetchNext]_vars /\ WF_vars(FetchNext)

---------------------------------------------------------------------------
(* Properties of findOverdueIssues *)

\* the dates (as instants) of the healthchecks whose key equals the match
\* key of the i-th issue
MatchingInstants(i) ==
    {allHealthchecks[k].date.num :
        k \in {k \in 1..Len(allHealthchecks) :
                 allHealthchecks[k].enterprise_slug
                    = StripSuffix(checkableIssues[i].title)}}

\* the latest instant of a non-empty set of instants
Latest(S) == CHOOSE x \in S : \A y \in S : y <= x

\* the entries of the result that stand for the i-th issue
ReturnedFor(i) ==
    {k \in 1..Len(overdueIssues) : overdueIssues[k].number = i}

ScenarioCall(slug, ageDays, title) ==
    /\ pc = "overdue_returned"
    /\ Len(allHealthchecks) = 1
    /\ allHealthchecks[1].enterprise_slug = slug
    /\ (clock - allHealthchecks[1].date.num) \div DayLen = ageDays
    /\ Len(checkableIssues) = 1
    /\ checkableIssues[1].title = title
    /\ maxStalenessInDays = 30

\* C2: with records = [{enterprise_slug: 'gamma', date: 10 days ago}],
\* issues = [{title: 'Gamma - 789'}] and maxStalenessInDays = 30 the issue is
\* joined to the record of the lower-cased name, and findOverdueIssues returns
\* zero issues.
C2_FreshRecordKeepsIssueOut ==
    ScenarioCall(SlugGamma, 10, TitleGamma) => Len(overdueIssues) = 0

\* C3: with records = [{enterprise_slug: 'beta', date: 40 days ago}],
\* issues = [{title: 'Beta - 456'}] and maxStalenessInDays = 30
\* findOverdueIssues returns exactly one issue, whose last_healthcheck_date is
\* the date of that record and whose days_since_healthcheck is a number
\* greater than 30.
C3_StaleRecordReported ==
    ScenarioCall(SlugBeta, 40, TitleBeta) =>
        /\ Len(overdueIssues) = 1
        /\ overdueIssues[1].last_healthcheck_date = allHealthchecks[1].date
        /\ overdueIssues[1].days_since_healthcheck # Null
        /\ Gt(overdueIssues[1].days_since_healthcheck, Number(30))

---------------------------------------------------------------------------
(* Properties of run *)

\* the positions in the log of the calls of op for issue n
LogOps(op, n) == {k \in 1..Len(log) : log[k].op = op /\ log[k].issue = n}

\* the positions in the log of the calls of getIssueLabeledDate that returned
LabelChecks == {k \in 1..Len(log) : log[k].op = "getIssueLabeledDate"}

\* those that returned a date
DatedLabelChecks == {k \in LabelChecks : log[k].value.t = "date"}

\* the time between the date of the label and the moment run compared it
\* with the clock, in time units
Elapsed(k) == log[k].now - log[k].value.num

\* run goes from the label check at position k of the log to unlabelIssue
UnlabelFollows(k) ==
    IF k = Len(log)
    THEN pc = "unlabel"
    ELSE log[k + 1].op = "unlabelIssue" /\ log[k + 1].issue = log[k].issue

\* C4: in a run that goes through all overdue issues, every overdue issue
\* with the suppression label whose label was applied more than 30 days ago
\* has its label removed by unlabelIssue and after that gets addIssueComment
\* in the same run.
C4_ExpiredSuppressionNotifiedInSameRun ==
    pc = "done" =>
        \A k \in DatedLabelChecks :
            Elapsed(k) > 30 * DayLen =>
                \E u \in LogOps("unlabelIssue", log[k].issue) :
                    /\ u > k
                    /\ \E c \in LogOps("addIssueComment", log[k].issue) : c > u

\* the clock value findOverdueIssues read in this run
OverdueReadAt ==
    log[CHOOSE k \in 1..Len(log) : log[k].op = "findOverdueIssues"].now

\* C5: an issue with the suppression label that is overdue is in the list
\* findOverdueIssues returns; and for an issue whose label was applied 30
\* days ago or less the run calls neither addIssueComment nor unlabelIssue.
C5_ActiveSuppressionStaysSilent ==
    /\ (pc = "loop" /\ idx = 1) =>
          \A i \in 1..Len(checkableIssues) :
              (/\ checkableIssues[i].skip_healthcheck_notification
               /\ \/ MatchingInstants(i) = {}
                  \/ (OverdueReadAt - Latest(MatchingInstants(i))) \div DayLen
                        > maxStalenessInDays)
                  => ReturnedFor(i) # {}
    /\ \A k \in DatedLabelChecks :
          Elapsed(k) <= 30 * DayLen =>
              /\ ~UnlabelFollows(k)
              /\ LogOps("unlabelIssue", log[k].issue) = {}
              /\ LogOps("addIssueComment", log[k].issue) = {}

\* C5 witness: a finished run in which an overdue issue whose label is exactly
\* 30 days old was looked at and left alone.
C5_Witness ==
    /\ pc = "done"
    /\ \E k \in DatedLabelChecks :
          /\ Elapsed(k) = 30 * DayLen
          /\ ReturnedFor(log[k].issue) # {}
          /\ LogOps("unlabelIssue", log[k].issue) = {}
          /\ LogOps("addIssueComment", log[k].issue) = {}

\* C6 as stated: the suppression is expired, and unlabelIssue called, if and
\* only if the whole days elapsed since the label was applied,
\* floor((now - labelAppliedDate) / 1 day), exceed 30; a label applied 30
\* days and a fraction of a day ago is not expired.
C6_ExpiryOnWholeDays ==
    \A k \in DatedLabelChecks :
        UnlabelFollows(k) <=> Elapsed(k) \div DayLen > 30

\* C6: the suppression is expired, and unlabelIssue called, if and only if
\* the time elapsed since the label was applied exceeds 30 days, fractions of
\* a day included: 31 days and 30 days plus a fraction are expired, exactly
\* 30 days is not.
C6_ExpiryOnElapsedTime ==
    \A k \in DatedLabelChecks :
        UnlabelFollows(k) <=> Elapsed(k) > 30 * DayLen

\* C6 witness: one label that is 30 days and a fraction of a day old, for
\* which unlabelIssue is called, and one that is exactly 30 days old, for
\* which it is not.
C6_Witness ==
    /\ \E k \in DatedLabelChecks :
          /\ Elapsed(k) > 30 * DayLen
          /\ Elapsed(k) < 31 * DayLen
          /\ LogOps("unlabelIssue", log[k].issue) # {}
    /\ \E k \in DatedLabelChecks :
          /\ Elapsed(k) = 30 * DayLen
          /\ k < Len(log)
          /\ LogOps("unlabelIssue", log[k].issue) = {}

\* the timeline of issue n has no labeled event for the suppression label
NeverLabeled(n) ==
    \A j \in 1..Len(tracker.timelines[n]) :
        ~(/\ tracker.timelines[n][j].event = "labeled"
          /\ tracker.timelines[n][j].label = inputs.skip_label_name)

DryRunRequested ==
    inputs.dry_run \in {<<"t", "r", "u", "e">>, <<" ", "T", "R", "U", "E">>, <<"1">>}

\* C8: in a run with dry-run enabled neither createComment nor removeLabel
\* is called, whatever the issues, the records and the labels.
C8_DryRunNeverMutates ==
    DryRunRequested =>
        \A k \in 1..Len(log) : log[k].op \notin {"createComment", "removeLabel"}

\* C8 witness: a dry run, asked for as ' TRUE', in which unlabelIssue was
\* called for one issue and addIssueComment for another.
C8_Witness ==
    /\ inputs.dry_run = <<" ", "T", "R", "U", "E">>
    /\ \E k \in 1..Len(log) : log[k].op = "unlabelIssue"
    /\ \E k \in 1..Len(log) : log[k].op = "addIssueComment"

---------------------------------------------------------------------------
(* Properties of addIssueComment *)

\* addIssueComment has returned for an issue whose comment can be composed
CommentCallReturned ==
    /\ pc = "notifier_returned"
    /\ call.op = "addIssueComment"
    /\ call.issue.last_healthcheck_date.t \in {"null", "date"}

\* C9: addIssueComment called with isDryRun = true does not call
\* createComment and resolves to {ok: true, message} with a message that
\* begins with '[DRY-RUN]'.
C9_DryRunCommentResolves ==
    (CommentCallReturned /\ call.dryRun) =>
        /\ \A k \in 1..Len(log) : log[k].op # "createComment"
        /\ ~ret.raised
        /\ ret.ok
        /\ Len(ret.message) > 0
        /\ ret.message[1] = Lit("[DRY-RUN] Would have commented on issue ")

\* C10: addIssueComment never raises: its promise resolves to {ok, message}
\* whatever createComment and the composition of the message do; when
\* createComment rejects, ok is false and the message contains the text of
\* the error.
C10_CommentNeverRaises ==
    (pc = "notifier_returned" /\ call.op = "addIssueComment") =>
        /\ ~ret.raised
        /\ (\E k \in 1..Len(log) :
                log[k].op = "createComment" /\ log[k].value = JsString(ApiError))
              => /\ ~ret.ok
                 /\ \E j \in 1..Len(ret.message) : ret.message[j] = Lit(ApiError)

---------------------------------------------------------------------------
(* Properties of unlabelIssue *)

\* unlabelIssue has returned
UnlabelCallReturned == pc = "notifier_returned" /\ call.op = "unlabelIssue"

\* the calls of removeLabel in the log that rejected
RejectedRemovals ==
    {k \in 1..Len(log) : log[k].op = "removeLabel" /\ log[k].body = <<Lit(ApiError)>>}

\* C11: unlabelIssue never raises: when removeLabel rejects it resolves to
\* {ok: false, message} with the text of the error in the message; when
\* removeLabel succeeds or isDryRun is true it resolves to {ok: true,
\* message}; and with isDryRun true removeLabel is not called.
C11_UnlabelNeverRaises ==
    UnlabelCallReturned =>
        /\ ~ret.raised
        /\ Len(ret.message) > 0
        /\ RejectedRemovals # {} =>
              /\ ~ret.ok
              /\ \E j \in 1..Len(ret.message) : ret.message[j] = Lit(ApiError)
        /\ RejectedRemovals = {} => ret.ok
        /\ call.dryRun =>
              /\ ret.ok
              /\ \A k \in 1..Len(log) : log[k].op # "removeLabel"
        /\ ~call.dryRun => \E k \in 1..Len(log) : log[k].op = "removeLabel"

\* C11 witness: a live call of unlabelIssue in which removeLabel rejected and
\* the call resolved to ok = false.
C11_Witness ==
    /\ UnlabelCallReturned
    /\ ~call.dryRun
    /\ RejectedRemovals # {}
    /\ ~ret.raised
    /\ ~ret.ok

---------------------------------------------------------------------------
(* Properties of the loop of run *)

\* the calls of createComment in the log that rejected
RejectedComments ==
    {k \in 1..Len(log) :
        log[k].op = "createComment" /\ log[k].value = JsString(ApiError)}

\* C12: in a live run, when createComment or removeLabel fails for one
\* overdue issue, the run is not aborted by it and goes on to the later
\* issues: once the loop is through, every unsuppressed overdue issue has
\* had its call of addIssueComment.
C12_ContinueOnError ==
    (~isDryRun /\ (RejectedComments # {} \/ RejectedRemovals # {})) =>
        /\ ~(pc = "failed" /\ failure.stage \in {"addIssueComment", "unlabelIssue"})
        /\ pc = "done" =>
              \A j \in 1..Len(overdueIssues) :
                  ~overdueIssues[j].skip_healthcheck_notification =>
                      LogOps("addIssueComment", overdueIssues[j].number) # {}

\* C13: in one run createComment is called at most once and removeLabel at
\* most once for each overdue issue, also when the call fails: no failed call
\* is made again within the run.
C13_SingleAttemptPerIssue ==
    \A j \in 1..Len(overdueIssues) :
        /\ Cardinality(LogOps("createComment", overdueIssues[j].number)) <= 1
        /\ Cardinality(LogOps("removeLabel", overdueIssues[j].number)) <= 1

\* C13 witness: a live run that is through its loop, in which removeLabel
\* rejected for one issue and was called just once for it.
C13_Witness ==
    /\ pc = "done"
    /\ \E k \in RejectedRemovals :
          Cardinality(LogOps("removeLabel", log[k].issue)) = 1

---------------------------------------------------------------------------
(* The tracker as the calls leave it *)

\* the comments the tracker holds for issue n after the calls of events: the
\* bodies of the calls of createComment that succeeded, in order
TrackerComments(events, n) ==
    LET made == SelectSeq(events, LAMBDA e : /\ e.op = "createComment"
                                             /\ e.issue = n
                                             /\ e.value = Null)
    IN [k \in 1..Len(made) |-> made[k].body]

\* the labels the calls of events took off issue n: those of the calls of
\* removeLabel that succeeded
TrackerLabelsRemoved(events, n) ==
    {events[k].value : k \in {k \in 1..Len(events) : /\ events[k].op = "removeLabel"
                                                     /\ events[k].issue = n
                                                     /\ events[k].body = <<>>}}

\* the position in the log of the second call of the notifier operation
SecondCallAt ==
    CHOOSE k \in 2..Len(log) :
        /\ log[k].op = call.op
        /\ \A j \in (k + 1)..Len(log) : log[j].op # call.op

\* the log up to the second call
FirstCallLog == SubSeq(log, 1, SecondCallAt - 1)

\* the first call changed the tracker: its comment was posted or its label
\* taken off
FirstCallTookEffect ==
    \/ TrackerComments(FirstCallLog, call.issue.number) # <<>>
    \/ TrackerLabelsRemoved(FirstCallLog, call.issue.number) # {}

\* C14: addIssueComment (live) called a second time for the same unchanged
\* issue, or unlabelIssue called a second time for the same issue and label,
\* after a first call that took effect, leaves the comments and the labels
\* of the issue on the tracker as they were after the first call.
C14_IdempotentUnderRetry ==
    (pc = "notifier_retried" /\ FirstCallTookEffect) =>
        /\ TrackerComments(log, call.issue.number)
              = TrackerComments(FirstCallLog, call.issue.number)
        /\ TrackerLabelsRemoved(log, call.issue.number)
              = TrackerLabelsRemoved(FirstCallLog, call.issue.number)

---------------------------------------------------------------------------
(* Pacing *)

\* the positions in the log of the calls that change the tracker
Mutations == {k \in 1..Len(log) : log[k].op \in {"createComment", "removeLabel"}}

---------------------------------------------------------------------------
(* The match key *)

\* the positions of the markers of a title: a hyphen followed, after white
\* space if any, by a digit
Markers(title) ==
    {p \in 1..Len(title) :
        /\ title[p] = "-"
        /\ \E d \in (p + 1)..Len(title) :
              /\ IsDigit(title[d])
              /\ \A j \in (p + 1)..(d - 1) : IsSpace(title[j])}

\* the text of a title before position p, without the white space it ends in
TextBefore(title, p) ==
    LET solid == {e \in 1..(p - 1) : ~IsSpace(title[e])}
    IN IF solid = {} THEN <<>>
       ELSE SubSeq(title, 1, CHOOSE e \in solid : \A f \in solid : f <= e)

\* C16 as stated: the match key of an issue is the text of its title before
\* the last marker (for 'A - 1 - 2' the text before the second marker), and
\* the whole title when the title has no marker.
C16_KeyBeforeLastMarker ==
    pc = "overdue_returned" =>
        \A k \in 1..Len(overdueIssues) :
            LET title == overdueIssues[k].title
                marks == Markers(title)
            IN overdueIssues[k].enterprise_slug =
                  IF marks = {} THEN title
                  ELSE TextBefore(title, CHOOSE p \in marks : \A q \in marks : q <= p)

\* C16: the match key of an issue is the text of its title before the first
\* marker (for 'A - 1 - 2' the key is 'A'), and the whole title when the title
\* has no marker.
C16_KeyBeforeFirstMarker ==
    pc = "overdue_returned" =>
        \A k \in 1..Len(overdueIssues) :
            LET title == overdueIssues[k].title
                marks == Markers(title)
            IN overdueIssues[k].enterprise_slug =
                  IF marks = {} THEN title
                  ELSE TextBefore(title, CHOOSE p \in marks : \A q \in marks : p <= q)

\* C16 witness: findOverdueIssues returned an issue titled 'A - 1 - 2' with
\* the key 'A' and an issue whose title has no marker with its whole title.
C16_Witness ==
    /\ pc = "overdue_returned"
    /\ \E k \in 1..Len(overdueIssues) :
          /\ overdueIssues[k].title = TitleTwoMarkers
          /\ overdueIssues[k].enterprise_slug = <<"A">>
    /\ \E k \in 1..Len(overdueIssues) :
          /\ overdueIssues[k].title = TitlePlain
          /\ overdueIssues[k].enterprise_slug = TitlePlain

---------------------------------------------------------------------------
(* The most recent healthcheck *)

\* C17: when several healthchecks have the key of an issue, whatever their
\* order, the last_healthcheck_date of the issue is the maximum of their
\* dates, and the issue is returned only if every one of them is more than
\* maxStalenessInDays days old.
C17_MostRecentRecordDecides ==
    pc = "overdue_returned" =>
        \A i \in 1..Len(checkableIssues) :
            LET dates == MatchingInstants(i)
            IN dates # {} =>
                  \A k \in ReturnedFor(i) :
                      /\ overdueIssues[k].last_healthcheck_date = DateAt(Latest(dates))
                      /\ \A d \in dates : (clock - d) \div DayLen > maxStalenessInDays

\* C17 witness: an issue with two matching records, the older one first in
\* the list, is returned with the date of the second.
C17_Witness ==
    /\ pc = "overdue_returned"
    /\ Len(allHealthchecks) = 2
    /\ allHealthchecks[1].enterprise_slug = allHealthchecks[2].enterprise_slug
    /\ allHealthchecks[1].date.num < allHealthchecks[2].date.num
    /\ \E k \in 1..Len(overdueIssues) :
          /\ overdueIssues[k].enterprise_slug = allHealthchecks[1].enterprise_slug
          /\ overdueIssues[k].last_healthcheck_date = allHealthchecks[2].date

---------------------------------------------------------------------------
(* Healthchecks without a date *)

\* C18: for every issue findOverdueIssues returns, whatever the healthchecks
\* (records without a date included), days_since_healthcheck is null if and
\* only if last_healthcheck_date is null.
C18_DaysNullIffDateNull ==
    pc = "overdue_returned" =>
        \A k \in 1..Len(overdueIssues) :
            overdueIssues[k].days_since_healthcheck = Null
                <=> overdueIssues[k].last_healthcheck_date = Null

\* the positions of the healthchecks that have the key of the i-th issue
MatchingRecords(i) ==
    {k \in 1..Len(allHealthchecks) :
        allHealthchecks[k].enterprise_slug = StripSuffix(checkableIssues[i].title)}

\* the date of the k-th healthcheck is missing or does not parse
Undated(k) == allHealthchecks[k].date.t \in {"undefined", "null", "string"}

\* C19: a healthcheck whose date is missing or does not parse is rejected
\* with a visible failure and takes no part in a comparison of dates: an
\* issue whose only matching record is such a healthcheck is not dropped from
\* the result as if its healthcheck were recent.
C19_UndatedRecordNotSilentlyFresh ==
    pc = "overdue_returned" =>
        \A i \in 1..Len(checkableIssues) :
            (/\ MatchingRecords(i) # {}
             /\ \A k \in MatchingRecords(i) : Undated(k))
                => \/ ReturnedFor(i) # {}
                   \/ failure # NoFailure

---------------------------------------------------------------------------
(* Healthcheck files that do not parse *)

\* the healthchecks of the files of the data repository that parse
ParsedRecords ==
    LET good == SelectSeq(store, LAMBDA f : f.kind = "record")
    IN [k \in 1..Len(good) |->
          [enterprise_slug |-> good[k].enterprise_slug, date |-> good[k].date]]

\* the clone of the data repository succeeded and the files have been read
FilesRead ==
    \/ pc \in {"loop", "unlabel", "comment", "pause", "done"}
    \/ pc = "failed" /\ failure.stage \notin {"fetch", "clone"}

\* C20: a healthcheck file with malformed YAML frontmatter is left out on its
\* own: loadHealthChecks returns the healthchecks of every other file, and
\* the run goes on to find the overdue issues instead of aborting.
C20_ParseFaultRejectsOneRecord ==
    (/\ FilesRead
     /\ \E k \in 1..Len(store) : store[k].kind = "malformed"
     /\ \A k \in 1..Len(store) : store[k].kind \in {"malformed", "record"})
        => /\ failure.stage # "loadHealthChecks"
           /\ allHealthchecks = ParsedRecords
           /\ \E k \in 1..Len(log) : log[k].op = "findOverdueIssues"

---------------------------------------------------------------------------
(* The records of the run's loader *)

\* the run has loaded the records of the data repository
RecordsLoaded == pc \in {"loop", "unlabel", "comment", "pause", "done"}

\* C21: every record that loadHealthChecks hands to the matcher of the run
\* has an enterprise_slug equal to its lower-cased form
C21_LoadedSlugsLowerCased ==
    RecordsLoaded =>
        \A k \in 1..Len(allHealthchecks) :
            allHealthchecks[k].enterprise_slug =
                ToLowerCase(allHealthchecks[k].enterprise_slug)

---------------------------------------------------------------------------
(* Properties of composeNotificationComment *)

\* composeNotificationComment has been called and has returned or thrown
ComposeCallReturned ==
    /\ pc \in {"notifier_returned", "notifier_retried"}
    /\ call.op = "composeNotificationComment"

\* the issue of the call has a title that is not empty
HasTitle == call.issue.title \notin {<<>>, NoTitle}

\* the last healthcheck date of the issue is null or a valid date
NullOrValidDate == NewDate(call.issue.last_healthcheck_date) # InvalidDate

\* the message holds the piece
ContainsPiece(message, piece) == \E k \in 1..Len(message) : message[k] = piece

\* the message holds the hint that tells to add the label to the issue
ContainsHint(message, labelName) ==
    \E k \in 1..(Len(message) - 1) :
        /\ message[k] =
              Lit("If you'd like to suppress this message temporarily, add the label ")
        /\ message[k + 1] = Val(JsString(labelName))

NoHealthchecksMessage(message) ==
    ContainsPiece(message, Lit("No healthchecks were found for the issue titled '"))

\* C23: when last_healthcheck_date is undefined or no valid date,
\* composeNotificationComment does not throw and returns the message that
\* no healthchecks were found, as it does for null
C23_InvalidDateTreatedAsNull ==
    (ComposeCallReturned /\ HasTitle /\ ~NullOrValidDate) =>
        /\ ~ret.raised
        /\ NoHealthchecksMessage(ret.message)

\* the piece of the message that stands where the title goes
TitlePosition(message) ==
    LET k == CHOOSE k \in 1..(Len(message) - 1) :
                 message[k] \in
                    {Lit("No healthchecks were found for the issue titled '"),
                     Lit("The enterprise ")}
    IN message[k + 1]

\* C24: for an issue whose title is missing or empty,
\* composeNotificationComment raises or returns a placeholder: it never
\* returns a message with undefined or the empty string where the title goes
C24_MissingTitleFailsFast ==
    (ComposeCallReturned /\ ~HasTitle /\ ~ret.raised) =>
        TitlePosition(ret.message) \notin {Val(Undefined), Chars(<<>>)}

\* the age in days a message states, if it states one
StatedAges(message) ==
    {message[k + 1] : k \in {k \in 1..(Len(message) - 1) :
        message[k] = Lit(" is due for a health check because its last check was ")}}

\* C25: two compositions for the same issue and label give the same message
\* whatever the time of the calls, and the age in days of the message is the
\* days_since_healthcheck that findOverdueIssues computed for the issue
C25_CompositionIgnoresClock ==
    /\ (pc = "notifier_retried" /\ call.op = "composeNotificationComment") =>
            log[1].body = log[2].body
    /\ (ComposeCallReturned /\ ~ret.raised) =>
            \A age \in StatedAges(ret.message) :
                age = Val(call.issue.days_since_healthcheck)

---------------------------------------------------------------------------
(* The skip_healthcheck flag *)

\* C26: findOverdueIssues leaves out every issue whose skip_healthcheck flag
\* is true, also when its only matching healthcheck is older than the
\* threshold
C26_SkippedIssueLeftOut ==
    pc = "overdue_returned" =>
        \A i \in 1..Len(checkableIssues) :
            checkableIssues[i].skip_healthcheck => ReturnedFor(i) = {}

---------------------------------------------------------------------------
(* Properties of getIssueLabeledDate *)

\* the instants of the labeled events of the timeline of issue n that carry
\* the skip label
LabeledInstants(n) ==
    {tracker.timelines[n][k].created_at.num :
        k \in {k \in 1..Len(tracker.timelines[n]) :
                 /\ tracker.timelines[n][k].event = "labeled"
                 /\ tracker.timelines[n][k].label = inputs.skip_label_name}}

\* the pages of the timeline of issue n that were requested, in order
RequestedPages(n) ==
    LET requests == SelectSeq(log, LAMBDA e : e.op = "listEventsForTimeline"
                                              /\ e.issue = n)
    IN [k \in 1..Len(requests) |-> requests[k].value]

---------------------------------------------------------------------------
(* Fatal faults of a run *)

\* the stages of a run that come before the loop over the overdue issues
FatalStages == {"fetch", "clone", "loadHealthChecks"}

\* C28: if listing the issues fails, cloneRepo throws or loading the records
\* throws, the run ends failed (core.setFailed) and has called neither
\* createComment nor removeLabel
C28_FatalFaultsAbortBeforeSideEffects ==
    failure.stage \in FatalStages =>
        /\ pc = "failed"
        /\ Mutations = {}
        /\ \A k \in 1..Len(log) :
              log[k].op \notin {"addIssueComment", "unlabelIssue"}

C28_Witness ==
    /\ pc = "failed"
    /\ failure.stage = "loadHealthChecks"
    /\ Len(tracker.issues) = MaxRunIssues
    /\ ~isDryRun
    /\ log = <<>>

---------------------------------------------------------------------------
(* Properties of fetchIssuesFromV2Project *)

\* the items of all pages of the board, in page order
RECURSIVE ItemsFrom(_)
ItemsFrom(p) ==
    IF p > Len(project.pages) THEN <<>>
    ELSE project.pages[p] \o ItemsFrom(p + 1)

\* the item has the state and the Status asked for, and an assignee
Wanted(item) ==
    /\ item.isIssue
    /\ item.state = fetchCall.issueState
    /\ item.assignees # <<>>
    /\ \E k \in 1..Len(item.fieldValues) :
          item.fieldValues[k] = FieldValue("Status", fetchCall.issueStatus)

\* the cursors of the requests made so far, in order
RequestedCursors == [k \in 1..Len(log) |-> log[k].value]

\* each page has been requested once, the first without a cursor and each
\* other with the endCursor of the page before it
EachPageRequestedOnce ==
    LET n == IF Len(project.pages) = 0 THEN 1 ELSE Len(project.pages)
    IN RequestedCursors = [k \in 1..n |-> IF k = 1 THEN Null ELSE Cursor(k - 1)]

\* the ids of the issues returned, in order
ReturnedIds == [k \in 1..Len(fetchedIssues) |-> fetchedIssues[k].id]

\* the ids of the wanted items of the board, in page order
WantedIds ==
    LET wanted == SelectSeq(ItemsFrom(1), Wanted)
    IN [k \in 1..Len(wanted) |-> wanted[k].id]

\* C29: fetchIssuesFromV2Project terminates once a page reports hasNextPage
\* false or comes without pageInfo; it has then requested each page once,
\* with the endCursor of the page before, and returns, in page order and
\* each once, exactly the items whose state is issueState, whose Status is
\* issueStatus and which have an assignee
C29_FetchTerminatesWithWantedItems ==
    /\ <>(pc \in {"fetch_returned", "fetch_failed"})
    /\ (pc = "fetch_loop" /\ ~Truthy(hasNextPage)) ~> (pc = "fetch_returned")
    /\ [](pc = "fetch_returned" => EachPageRequestedOnce /\ ReturnedIds = WantedIds)

C29_Witness ==
    /\ pc = "fetch_returned"
    /\ Len(log) = 2
    /\ ~project.pageInfo
    /\ Len(ItemsFrom(1)) = 4
    /\ ReturnedIds = <<11, 22>>

---------------------------------------------------------------------------
(* The label named in the comments of a run *)

\* C30: in a live run, every comment body handed to createComment names
\* the configured skip-label-name: the label name read from the inputs is
\* what addIssueComment receives as skipLabelName and writes into the hint
C30_CommentNamesConfiguredLabel ==
    \A k \in 1..Len(log) :
        log[k].op = "createComment" =>
            ContainsHint(log[k].body, inputs.skip_label_name)

====
